---- MODULE Spec2Model ----
(***************************************************************************)
(* Model of tiny-http's src/common.rs: StatusCode, Header, HeaderField,    *)
(* Method and HTTPVersion.  The types are immutable values, so each        *)
(* specification below draws inputs in Init and applies the operations of  *)
(* one family of types as actions.  Strings are sequences of one-character *)
(* strings over Alphabet.                                                  *)
(***************************************************************************)
EXTENDS Integers, Sequences, FiniteSets, TLC

VARIABLES
    \* Header / HeaderField parsing and formatting
    hpc,      \* "line" | "constructed" | "parsed" | "error" | "formatted" | "idle"
    origin,   \* "line": the header comes from a raw line; "constructed": built directly
    line,     \* the raw input line handed to Header::from_str
    hdr,      \* the current Result<Header, ()>
    orig,     \* the first Header of the run (constructed, or parsed from line)
    text,     \* the last output of Display for Header
    cycles,   \* number of completed format-then-parse cycles
    \* HeaderField / Method tokens
    tpc, s1, s2, hf1, hf2, m1, m2,
    \* HTTPVersion
    vpc, va, vb, ord, veq,
    \* StatusCode
    spc, ty, n, code, phrase

hvars == <<hpc, origin, line, hdr, orig, text, cycles>>
tvars == <<tpc, s1, s2, hf1, hf2, m1, m2>>
vvars == <<vpc, va, vb, ord, veq>>
svars == <<spc, ty, n, code, phrase>>
vars == <<hvars, tvars, vvars, svars>>

----------------------------------------------------------------------------
(* Bounds *)

MaxLineLen == 4
MaxFieldLen == 2
MaxValueLen == 2
MaxCycles == 3
MaxTokenLen == 2
MaxVersion == 5
MaxCode == 1023

\* The characters strings are built from: a letter in both cases, the two
\* whitespace characters space and tab, and the colon.
Alphabet == {"a", "A", " ", "\t", ":"}

RECURSIVE StringsOfLen(_)
StringsOfLen(k) ==
    IF k = 0 THEN {<<>>}
    ELSE {Append(s, c) : s \in StringsOfLen(k - 1), c \in Alphabet}

Strings(maxLen) == UNION {StringsOfLen(k) : k \in 0..maxLen}

----------------------------------------------------------------------------
(* str helpers of the standard library, as common.rs uses them *)

\* char::is_whitespace, on Alphabet
IsWhitespace(c) == c \in {" ", "\t"}

RECURSIVE TrimStart(_)
TrimStart(s) ==
    IF s # <<>> /\ IsWhitespace(Head(s)) THEN TrimStart(Tail(s)) ELSE s

RECURSIVE TrimEnd(_)
TrimEnd(s) ==
    IF s # <<>> /\ IsWhitespace(s[Len(s)])
    THEN TrimEnd(SubSeq(s, 1, Len(s) - 1))
    ELSE s

\* str::trim
Trim(s) == TrimEnd(TrimStart(s))

\* u8::to_ascii_lowercase, on Alphabet
ToAsciiLowercase(c) == IF c = "A" THEN "a" ELSE c

\* Variant of EqIgnoreAsciiCase that compares the bytes as they are
EqExact(s, t) == s = t

\* str::eq_ignore_ascii_case
EqIgnoreAsciiCase(s, t) ==
    /\ Len(s) = Len(t)
    /\ \A i \in 1..Len(s) : ToAsciiLowercase(s[i]) = ToAsciiLowercase(t[i])

\* Index of the first occurrence of c in s, 0 when there is none (str::find)
RECURSIVE FindFrom(_, _, _)
FindFrom(s, c, i) ==
    IF i > Len(s) THEN 0
    ELSE IF s[i] = c THEN i
    ELSE FindFrom(s, c, i + 1)

Find(s, c) == FindFrom(s, c, 1)

\* Index of the last occurrence of c in s, 0 when there is none (str::rfind)
RECURSIVE RFindFrom(_, _, _)
RFindFrom(s, c, i) ==
    IF i = 0 THEN 0
    ELSE IF s[i] = c THEN i
    ELSE RFindFrom(s, c, i - 1)

\* Variant of Splitn2 that splits at the last ':' (rsplitn in place of splitn)
Splitn2AtLast(input) ==
    LET i == RFindFrom(input, ":", Len(input)) IN
    IF i = 0 THEN <<input>>
    ELSE <<SubSeq(input, 1, i - 1), SubSeq(input, i + 1, Len(input))>>

\* input.splitn(2, ':') collected: one element when there is no ':', else the
\* text before the first ':' and all the text after it
Splitn2(input) ==
    LET i == Find(input, ":") IN
    IF i = 0 THEN <<input>>
    ELSE <<SubSeq(input, 1, i - 1), SubSeq(input, i + 1, Len(input))>>

----------------------------------------------------------------------------
(* HeaderField *)

\* Variant of HeaderFieldFromStr that rejects an empty field name
HeaderFieldFromStrNonEmpty(s) == [ok |-> Trim(s) # <<>>, v |-> Trim(s)]

\* impl FromStr for HeaderField: Ok(HeaderField(s.trim().to_string()))
HeaderFieldFromStr(s) == [ok |-> TRUE, v |-> Trim(s)]

\* HeaderField::equiv: other.eq_ignore_ascii_case(self.as_str())
HeaderFieldEquiv(self, other) == EqIgnoreAsciiCase(other, self)

\* impl PartialEq for HeaderField
HeaderFieldEq(self, other) == EqIgnoreAsciiCase(self, other)

\* impl Display for HeaderField
HeaderFieldFmt(self) == self

----------------------------------------------------------------------------
(* Header *)

Err == [ok |-> FALSE]

\* impl FromStr for Header
HeaderFromStr(input) ==
    LET elems == Splitn2(input) IN
    IF Len(elems) < 2 THEN Err
    ELSE LET f == HeaderFieldFromStr(elems[1]) IN
         IF ~f.ok THEN Err
         ELSE [ok |-> TRUE, field |-> f.v, value |-> elems[2]]

\* Variant of HeaderFmt that writes "{}:{}", without the space
HeaderFmtNoSpace(h) == h.field \o <<":">> \o h.value

\* impl Display for Header: write!(formatter, "{}: {}", self.field, self.value)
HeaderFmt(h) == HeaderFieldFmt(h.field) \o <<":", " ">> \o h.value

\* The HeaderField values a program can hold: the field is private to the
\* module and built only by from_str
HeaderFields(maxLen) == {HeaderFieldFromStr(s).v : s \in Strings(maxLen)}

NoHeader == [ok |-> FALSE]

TokensIdle ==
    /\ tpc = "idle" /\ s1 = <<>> /\ s2 = <<>>
    /\ hf1 = <<>> /\ hf2 = <<>> /\ m1 = <<>> /\ m2 = <<>>

VersionIdle ==
    /\ vpc = "idle" /\ va = <<0, 0>> /\ vb = <<0, 0>>
    /\ ord = "None" /\ veq = FALSE

StatusIdle ==
    /\ spc = "idle" /\ ty = "u16" /\ n = 0 /\ code = 0 /\ phrase = ""

HeaderIdle ==
    /\ hpc = "idle" /\ origin = "line" /\ line = <<>> /\ hdr = NoHeader
    /\ orig = NoHeader /\ text = <<>> /\ cycles = 0

\* A raw line arrives from the request parser, or a Header is built directly
\* from a field and a value.
HeaderInit ==
    /\ \/ /\ hpc = "line"
          /\ origin = "line"
          /\ line \in Strings(MaxLineLen)
          /\ hdr = NoHeader
          /\ orig = NoHeader
       \/ /\ hpc = "constructed"
          /\ origin = "constructed"
          /\ line = <<>>
          /\ \E f \in HeaderFields(MaxFieldLen), v \in Strings(MaxValueLen) :
                hdr = [ok |-> TRUE, field |-> f, value |-> v]
          /\ orig = hdr
    /\ text = <<>>
    /\ cycles = 0
    /\ TokensIdle /\ VersionIdle /\ StatusIdle

\* line.parse::<Header>()
ParseLine ==
    /\ hpc = "line"
    /\ hdr' = HeaderFromStr(line)
    /\ orig' = hdr'
    /\ hpc' = IF hdr'.ok THEN "parsed" ELSE "error"
    /\ UNCHANGED <<origin, line, text, cycles>>
    /\ UNCHANGED <<tvars, vvars, svars>>

\* format!("{}", header)
FormatHeader ==
    /\ hpc \in {"constructed", "parsed"}
    /\ cycles < MaxCycles
    /\ text' = HeaderFmt(hdr)
    /\ hpc' = "formatted"
    /\ UNCHANGED <<origin, line, hdr, orig, cycles>>
    /\ UNCHANGED <<tvars, vvars, svars>>

\* text.parse::<Header>() on the formatted text: one format-then-parse cycle
ReparseText ==
    /\ hpc = "formatted"
    /\ hdr' = HeaderFromStr(text)
    /\ hpc' = IF hdr'.ok THEN "parsed" ELSE "error"
    /\ cycles' = cycles + 1
    /\ UNCHANGED <<origin, line, orig, text>>
    /\ UNCHANGED <<tvars, vvars, svars>>

HeaderNext == ParseLine \/ FormatHeader \/ ReparseText

SpecHeader == HeaderInit /\ [][HeaderNext]_vars

----------------------------------------------------------------------------
(* Vocabulary of the header claims, stated without the parsing operators *)

HasColon(s) == \E i \in 1..Len(s) : s[i] = ":"

ColonCount(s) == Cardinality({i \in 1..Len(s) : s[i] = ":"})

\* position i holds the first ':' of s
FirstColon(s, i) == s[i] = ":" /\ \A j \in 1..(i - 1) : s[j] # ":"

After(s, i) == SubSeq(s, i + 1, Len(s))

Before(s, i) == SubSeq(s, 1, i - 1)

Spaces(k) == [i \in 1..k |-> " "]

\* t is s without its leading and trailing whitespace
IsTrimOf(t, s) ==
    /\ t = <<>> \/ (~IsWhitespace(t[1]) /\ ~IsWhitespace(t[Len(t)]))
    /\ \E a \in 0..Len(s) :
          /\ a + Len(t) <= Len(s)
          /\ SubSeq(s, a + 1, a + Len(t)) = t
          /\ \A i \in 1..a : IsWhitespace(s[i])
          /\ \A i \in (a + Len(t) + 1)..Len(s) : IsWhitespace(s[i])

\* s without its leading space characters
RECURSIVE StripLeadingSpaces(_)
StripLeadingSpaces(s) ==
    IF s # <<>> /\ Head(s) = " " THEN StripLeadingSpaces(Tail(s)) ELSE s

\* the raw line has just been parsed, successfully or not
LineParsed == origin = "line" /\ cycles = 0 /\ hpc \in {"parsed", "error"}

----------------------------------------------------------------------------
(* Header claims *)

\* C1: for every line name + ": " + value, name without a colon, Header::parse
\* succeeds, the field is case-insensitively equivalent to name and the value
\* is exactly value, without the separating space.
C1_ParseStripsSeparator ==
    LineParsed =>
        \A i \in 1..(Len(line) - 1) :
            (FirstColon(line, i) /\ line[i + 1] = " ") =>
                /\ hdr.ok
                /\ HeaderFieldEquiv(hdr.field, Before(line, i))
                /\ hdr.value = SubSeq(line, i + 2, Len(line))

C3_ErrorIffNoColon ==
    LineParsed =>
        /\ (hpc = "error") <=> ~HasColon(line)
        /\ hdr.ok <=> HasColon(line)

\* a non-empty line without a colon has been refused
C3_Witness ==
    /\ LineParsed /\ hpc = "error"
    /\ Len(line) >= 2
    /\ ~HasColon(line) /\ ~hdr.ok

C5_SingleSpaceAfterColon ==
    (origin = "line" /\ cycles = 0 /\ hpc = "formatted") =>
        \A i \in 1..Len(line) :
            FirstColon(line, i) =>
                text = hdr.field \o <<":", " ">>
                          \o StripLeadingSpaces(After(line, i))

----------------------------------------------------------------------------
(* Method *)

\* impl FromStr for Method: Ok(Method(s.to_string()))
MethodFromStr(s) == [ok |-> TRUE, v |-> s]

\* Method::equiv: other.eq_ignore_ascii_case(self.as_str())
MethodEquiv(self, other) == EqIgnoreAsciiCase(other, self)

\* impl PartialEq for Method
MethodEq(self, other) == EqIgnoreAsciiCase(self, other)

\* Two tokens arrive; each is parsed as a HeaderField and as a Method.
TokenInit ==
    /\ tpc = "input"
    /\ s1 \in Strings(MaxTokenLen)
    /\ s2 \in Strings(MaxTokenLen)
    /\ hf1 = <<>> /\ hf2 = <<>> /\ m1 = <<>> /\ m2 = <<>>
    /\ HeaderIdle /\ VersionIdle /\ StatusIdle

\* s1.parse::<HeaderField>(), s2.parse::<HeaderField>()
ParseHeaderFields ==
    /\ tpc \in {"input", "methods"}
    /\ hf1' = HeaderFieldFromStr(s1).v
    /\ hf2' = HeaderFieldFromStr(s2).v
    /\ tpc' = IF tpc = "input" THEN "fields" ELSE "done"
    /\ UNCHANGED <<s1, s2, m1, m2>>
    /\ UNCHANGED <<hvars, vvars, svars>>

\* s1.parse::<Method>(), s2.parse::<Method>()
ParseMethods ==
    /\ tpc \in {"input", "fields"}
    /\ m1' = MethodFromStr(s1).v
    /\ m2' = MethodFromStr(s2).v
    /\ tpc' = IF tpc = "input" THEN "methods" ELSE "done"
    /\ UNCHANGED <<s1, s2, hf1, hf2>>
    /\ UNCHANGED <<hvars, vvars, svars>>

TokenNext == ParseHeaderFields \/ ParseMethods

SpecToken == TokenInit /\ [][TokenNext]_vars

----------------------------------------------------------------------------
(* Token claims *)

\* s and t differ at most in the case of their ASCII letters
CaseVariants(s, t) ==
    /\ Len(s) = Len(t)
    /\ \A i \in 1..Len(s) : s[i] = t[i] \/ {s[i], t[i]} = {"a", "A"}

\* s has no leading and no trailing whitespace
Unpadded(s) == s = <<>> \/ (~IsWhitespace(s[1]) /\ ~IsWhitespace(s[Len(s)]))

\* C6: for all s1, s2 that are case-variants of the same token, the parsed
\* HeaderFields are equal, the parsed Methods are equal, equiv(s2) is true on
\* the value parsed from s1, and the stored string keeps its original case.
\* A HeaderField token is a trimmed string: on a string with leading or
\* trailing whitespace HeaderField::equiv(s2) is false, the stored field being
\* trimmed and the literal not, which the formula states as well.
C6_CaseVariants ==
    (tpc = "done" /\ CaseVariants(s1, s2)) =>
        /\ HeaderFieldEq(hf1, hf2)
        /\ MethodEq(m1, m2)
        /\ HeaderFieldEquiv(hf1, s2) <=> Unpadded(s1)
        /\ MethodEquiv(m1, s2)
        /\ m1 = s1
        /\ IsTrimOf(hf1, s1)

\* two tokens that differ in case only, parsed both ways
C6_Witness ==
    /\ tpc = "done"
    /\ CaseVariants(s1, s2) /\ s1 # s2
    /\ Len(s1) = 2 /\ Unpadded(s1)
    /\ hf1 = s1 /\ hf2 = s2 /\ hf1 # hf2
    /\ HeaderFieldEq(hf1, hf2) /\ MethodEquiv(m1, s2)

----------------------------------------------------------------------------
(* HTTPVersion: a pair <<major, minor>> of usize *)

\* usize::partial_cmp
UsizePartialCmp(a, b) ==
    IF a < b THEN "Less" ELSE IF a = b THEN "Equal" ELSE "Greater"

\* Variant of HTTPVersionPartialCmp that lets the minor number decide first
HTTPVersionPartialCmpMinorFirst(self, other) ==
    IF self[2] # other[2]
    THEN UsizePartialCmp(self[2], other[2])
    ELSE UsizePartialCmp(self[1], other[1])

\* impl PartialOrd for HTTPVersion: partial_cmp, the Some(_) it returns
HTTPVersionPartialCmp(self, other) ==
    LET my_major == self[1]
        my_minor == self[2]
        other_major == other[1]
        other_minor == other[2]
    IN  IF my_major # other_major
        THEN UsizePartialCmp(my_major, other_major)
        ELSE UsizePartialCmp(my_minor, other_minor)

\* #[derive(PartialEq)] on HTTPVersion
HTTPVersionEq(self, other) == self[1] = other[1] /\ self[2] = other[2]

Versions == (0..MaxVersion) \X (0..MaxVersion)

VersionInit ==
    /\ vpc = "input"
    /\ va \in Versions
    /\ vb \in Versions
    /\ ord = "None"
    /\ veq = FALSE
    /\ HeaderIdle /\ TokensIdle /\ StatusIdle

\* va.partial_cmp(&vb), which decides va < vb and va > vb
CompareVersions ==
    /\ vpc = "input"
    /\ ord' = HTTPVersionPartialCmp(va, vb)
    /\ vpc' = "compared"
    /\ UNCHANGED <<va, vb, veq>>
    /\ UNCHANGED <<hvars, tvars, svars>>

\* va == vb
EqVersions ==
    /\ vpc = "compared"
    /\ veq' = HTTPVersionEq(va, vb)
    /\ vpc' = "done"
    /\ UNCHANGED <<va, vb, ord>>
    /\ UNCHANGED <<hvars, tvars, svars>>

VersionNext == CompareVersions \/ EqVersions

SpecVersion == VersionInit /\ [][VersionNext]_vars

\* lexicographic order on (major, minor)
LexLess(a, b) == a[1] < b[1] \/ (a[1] = b[1] /\ a[2] < b[2])

\* C7: the comparison of HTTPVersion values is the lexicographic total order
\* on (major, minor): a < b iff LexLess(a, b), a == b iff both components are
\* equal, exactly one of <, ==, > holds; 1.0 < 1.1 < 2.0 and 1.5 > 1.0.
C7_LexicographicOrder ==
    (vpc = "done") =>
        /\ ord \in {"Less", "Equal", "Greater"}
        /\ (ord = "Less") <=> LexLess(va, vb)
        /\ (ord = "Greater") <=> LexLess(vb, va)
        /\ veq <=> (va[1] = vb[1] /\ va[2] = vb[2])
        /\ (ord = "Equal") <=> veq
        /\ (va = <<1, 0>> /\ vb = <<1, 1>>) => ord = "Less"
        /\ (va = <<1, 1>> /\ vb = <<2, 0>>) => ord = "Less"
        /\ (va = <<1, 5>> /\ vb = <<1, 0>>) => ord = "Greater"

\* the major number decides against the minor one
C7_Witness ==
    /\ vpc = "done"
    /\ va = <<1, 5>> /\ vb = <<2, 0>>
    /\ ord = "Less" /\ ~veq

----------------------------------------------------------------------------
(* StatusCode: the wrapped u16 *)

\* Variant of CastAsU16 that saturates at the ends of u16 instead of wrapping
CastAsU16Saturating(x) == IF x < 0 THEN 0 ELSE IF x > 65535 THEN 65535 ELSE x

\* `x as u16` on an integer of at most 32 bits: the low 16 bits of x's two's
\* complement pattern.  A negative x has the pattern of !(-(x + 1)), and ! on 16
\* bits is 65535 minus the low 16 bits.
CastAsU16(x) ==
    IF x >= 0 THEN x % 65536 ELSE 65535 - ((-(x + 1)) % 65536)

\* impl From<i8> for StatusCode
StatusCodeFromI8(in_code) == CastAsU16(in_code)

\* impl From<u8> for StatusCode
StatusCodeFromU8(in_code) == CastAsU16(in_code)

\* impl From<i16> for StatusCode
StatusCodeFromI16(in_code) == CastAsU16(in_code)

\* impl From<u16> for StatusCode, and StatusCode::from_u16
StatusCodeFromU16(in_code) == in_code

\* impl From<i32> for StatusCode
StatusCodeFromI32(in_code) == CastAsU16(in_code)

\* impl From<u32> for StatusCode
StatusCodeFromU32(in_code) == CastAsU16(in_code)

\* StatusCode::as_u16
StatusCodeAsU16(self) == self

\* the match of get_default_reason_phrase
ReasonPhraseMatch(c) ==
    CASE c = 100 -> "Continue"
      [] c = 101 -> "Switching Protocols"
      [] c = 102 -> "Processing"
      [] c = 118 -> "Connection timed out"
      [] c = 200 -> "OK"
      [] c = 201 -> "Created"
      [] c = 202 -> "Accepted"
      [] c = 203 -> "Non-Authoritative Information"
      [] c = 204 -> "No Content"
      [] c = 205 -> "Reset Content"
      [] c = 206 -> "Partial Content"
      [] c = 207 -> "Multi-Status"
      [] c = 210 -> "Content Different"
      [] c = 300 -> "Multiple Choices"
      [] c = 301 -> "Moved Permanently"
      [] c = 302 -> "Found"
      [] c = 303 -> "See Other"
      [] c = 304 -> "Not Modified"
      [] c = 305 -> "Use Proxy"
      [] c = 307 -> "Temporary Redirect"
      [] c = 400 -> "Bad Request"
      [] c = 401 -> "Unauthorized"
      [] c = 402 -> "Payment Required"
      [] c = 403 -> "Forbidden"
      [] c = 404 -> "Not Found"
      [] c = 405 -> "Method Not Allowed"
      [] c = 406 -> "Not Acceptable"
      [] c = 407 -> "Proxy Authentication Required"
      [] c = 408 -> "Request Time-out"
      [] c = 409 -> "Conflict"
      [] c = 410 -> "Gone"
      [] c = 411 -> "Length Required"
      [] c = 412 -> "Precondition Failed"
      [] c = 413 -> "Request Entity Too Large"
      [] c = 414 -> "Reques-URI Too Large"
      [] c = 415 -> "Unsupported Media Type"
      [] c = 416 -> "Request range not satisfiable"
      [] c = 417 -> "Expectation Failed"
      [] c = 500 -> "Internal Server Error"
      [] c = 501 -> "Not Implemented"
      [] c = 502 -> "Bad Gateway"
      [] c = 503 -> "Service Unavailable"
      [] c = 504 -> "Gateway Time-out"
      [] c = 505 -> "HTTP Version not supported"
      [] OTHER -> "Unknown"

\* Variant of GetDefaultReasonPhrase that spells 414 "Request-URI Too Large"
\* and knows 418
GetDefaultReasonPhraseRevised(self) ==
    LET c == StatusCodeAsU16(self) IN
    IF c = 414 THEN "Request-URI Too Large"
    ELSE IF c = 418 THEN "I'm a teapot"
    ELSE ReasonPhraseMatch(c)

\* StatusCode::get_default_reason_phrase
GetDefaultReasonPhrase(self) == ReasonPhraseMatch(StatusCodeAsU16(self))

IntTypes == {"i8", "u8", "i16", "u16", "i32", "u32"}

\* The values of each integer type.  u32 stops at 2^31 - 1, the largest
\* integer of the model checker's arithmetic.
InRange(x, t) ==
    CASE t = "i8" -> -128 <= x /\ x <= 127
      [] t = "u8" -> 0 <= x /\ x <= 255
      [] t = "i16" -> -32768 <= x /\ x <= 32767
      [] t = "u16" -> 0 <= x /\ x <= 65535
      [] t = "i32" -> -2147483647 - 1 <= x /\ x <= 2147483647
      [] t = "u32" -> 0 <= x /\ x <= 2147483647

\* The inputs tried: every code up to MaxCode, every small negative number,
\* and the values around the powers of two where the cast changes behaviour.
SampleInts ==
    (0..MaxCode) \cup (-300..-1) \cup
    { -2147483647 - 1, -2147483647, -2147418113, -2147418112,
      -131073, -131072, -65537, -65536, -65535, -65132, -32769, -32768, -32767,
      32767, 32768, 32769, 65131, 65132, 65534, 65535, 65536, 65537, 65940,
      66035, 131071, 131072, 2147418111, 2147418112, 2147483646, 2147483647 }

StatusInit ==
    /\ spc = "input"
    /\ ty \in IntTypes
    /\ n \in {x \in SampleInts : InRange(x, ty)}
    /\ code = 0
    /\ phrase = ""
    /\ HeaderIdle /\ TokensIdle /\ VersionIdle

Built(c) ==
    /\ code' = c
    /\ spc' = "built"
    /\ UNCHANGED <<ty, n, phrase>>
    /\ UNCHANGED <<hvars, tvars, vvars>>

FromI8 == spc = "input" /\ ty = "i8" /\ Built(StatusCodeFromI8(n))

FromU8 == spc = "input" /\ ty = "u8" /\ Built(StatusCodeFromU8(n))

FromI16 == spc = "input" /\ ty = "i16" /\ Built(StatusCodeFromI16(n))

FromU16 == spc = "input" /\ ty = "u16" /\ Built(StatusCodeFromU16(n))

FromI32 == spc = "input" /\ ty = "i32" /\ Built(StatusCodeFromI32(n))

FromU32 == spc = "input" /\ ty = "u32" /\ Built(StatusCodeFromU32(n))

\* status.get_default_reason_phrase()
ReasonPhrase ==
    /\ spc = "built"
    /\ phrase' = GetDefaultReasonPhrase(code)
    /\ spc' = "phrased"
    /\ UNCHANGED <<ty, n, code>>
    /\ UNCHANGED <<hvars, tvars, vvars>>

StatusNext ==
    FromI8 \/ FromU8 \/ FromI16 \/ FromU16 \/ FromI32 \/ FromU32 \/ ReasonPhrase

SpecStatus == StatusInit /\ [][StatusNext]_vars

----------------------------------------------------------------------------
(* StatusCode claims *)

\* C8: for every integer n of a supported width, building a StatusCode from n
\* succeeds and as_u16() is n modulo 2^16 (-1 gives 65535); for n in
\* [0, 65535] as_u16() is n.
C8_ConversionWraps ==
    /\ (spc = "input") => ENABLED StatusNext
    /\ (spc \in {"built", "phrased"}) =>
          /\ StatusCodeAsU16(code) \in 0..65535
          /\ StatusCodeAsU16(code) = n % 65536
          /\ (0 <= n /\ n <= 65535) => StatusCodeAsU16(code) = n
          /\ n = -1 => StatusCodeAsU16(code) = 65535

\* a negative i32 beyond 16 bits wraps to a code of the table
C8_Witness ==
    /\ spc = "built" /\ ty = "i32" /\ n = -65132
    /\ code = 404

\* The canonical table of the design, code -> phrase
CanonicalTable ==
    (100 :> "Continue") @@ (101 :> "Switching Protocols") @@
    (102 :> "Processing") @@ (118 :> "Connection timed out") @@
    (200 :> "OK") @@ (201 :> "Created") @@ (202 :> "Accepted") @@
    (203 :> "Non-Authoritative Information") @@ (204 :> "No Content") @@
    (205 :> "Reset Content") @@ (206 :> "Partial Content") @@
    (207 :> "Multi-Status") @@ (210 :> "Content Different") @@
    (300 :> "Multiple Choices") @@ (301 :> "Moved Permanently") @@
    (302 :> "Found") @@ (303 :> "See Other") @@ (304 :> "Not Modified") @@
    (305 :> "Use Proxy") @@ (307 :> "Temporary Redirect") @@
    (400 :> "Bad Request") @@ (401 :> "Unauthorized") @@
    (402 :> "Payment Required") @@ (403 :> "Forbidden") @@
    (404 :> "Not Found") @@ (405 :> "Method Not Allowed") @@
    (406 :> "Not Acceptable") @@ (407 :> "Proxy Authentication Required") @@
    (408 :> "Request Time-out") @@ (409 :> "Conflict") @@ (410 :> "Gone") @@
    (411 :> "Length Required") @@ (412 :> "Precondition Failed") @@
    (413 :> "Request Entity Too Large") @@ (414 :> "Reques-URI Too Large") @@
    (415 :> "Unsupported Media Type") @@
    (416 :> "Request range not satisfiable") @@
    (417 :> "Expectation Failed") @@ (500 :> "Internal Server Error") @@
    (501 :> "Not Implemented") @@ (502 :> "Bad Gateway") @@
    (503 :> "Service Unavailable") @@ (504 :> "Gateway Time-out") @@
    (505 :> "HTTP Version not supported")

\* C9: get_default_reason_phrase is total on the 16-bit codes: the listed
\* phrase for a code of the canonical table ("Reques-URI Too Large" for 414),
\* "Unknown" for every other code (999, 306, 418).
C9_ReasonPhraseTable ==
    /\ (spc = "built") => ENABLED ReasonPhrase
    /\ (spc = "phrased") =>
          /\ code \in DOMAIN CanonicalTable => phrase = CanonicalTable[code]
          /\ code \notin DOMAIN CanonicalTable => phrase = "Unknown"
          /\ code = 414 => phrase = "Reques-URI Too Large"
          /\ code \in {999, 306, 418} => phrase = "Unknown"

\* a code outside the table that later registries define
C9_Witness ==
    /\ spc = "phrased" /\ code = 418 /\ phrase = "Unknown"

====
